---- MODULE Spec2Model ----
(***************************************************************************)
(* A model of the client-side cryptographic layer of mitthichat            *)
(* (src/src/lib/crypto.ts), of the room create/join flow that uses it      *)
(* (RoomJoin), of the room and message store (src/src/lib/firebase.ts),    *)
(* of the ChatRoom handlers that send, load and receive messages, of the   *)
(* MessageList media viewer and of the VideoCall signaling.                *)
(*                                                                         *)
(* Conventions.                                                            *)
(*  - A JavaScript string is a sequence of code points; a Uint8Array of    *)
(*    plaintext, nonce or salt is a sequence of integers in 0..255.        *)
(*  - AES-GCM is modelled as an ideal AEAD: a ciphertext is a sequence of  *)
(*    byte records, the first Len(data) of which carry the data byte       *)
(*    masked under (key, nonce, position) and the last TAG_LENGTH of which *)
(*    are the tag over (key, nonce, data).  A byte string authenticates    *)
(*    under (key, nonce) only if it is exactly what encryption under that  *)
(*    (key, nonce) produced.                                               *)
(*  - The chunk size (2 MiB) and the tag length (16 bytes) are scaled down *)
(*    to 4 and 2 bytes; the relation 0 < tag < chunk is kept.  The page of *)
(*    50 messages is scaled down to 2.                                     *)
(*  - Within one ChatRoom session the random source hands out each value   *)
(*    at most once.                                                        *)
(*  - A stored envelope is kept as the arguments of the encryptString call *)
(*    that produced it; its base64 texts are computed when it is opened.   *)
(*  - An async handler is one action per stretch between awaits where     *)
(*    another handler can run in between; the document id '' is 0.         *)
(*  - RTCPeerConnection follows the W3C state machine: addTrack throws for *)
(*    a track that already has a sender, setRemoteDescription(answer) is   *)
(*    valid in have-local-offer only.                                      *)
(***************************************************************************)
EXTENDS Integers, Sequences, FiniteSets, TLC

VARIABLES
    enc,      \* the encryptFileStream call in flight / its result
    dec,      \* the decryptFileStream call in flight / its result
    tamper,   \* what the transport did to the encrypted blob before decryptFileStream
    msg,      \* the last encryptString call and its envelope
    rcv,      \* the last decryptString call and its outcome
    sent,     \* number of messages exchanged so far
    rooms,    \* transport: room id -> stored room metadata
    client,   \* RoomJoin component state of each client
    session,  \* ChatRoom: the random draws and encryption calls made under the room key
    kdf,      \* the deriveKey / verifyRoomCode calls made so far and their outcomes
    chat,     \* ChatRoom: the stored messages and the message list on screen
    exported, \* key material that exportKey has handed out as raw bytes
    docs,     \* transport: room id -> the room's messages collection, oldest first
    calls,    \* crypto calls running concurrently: call id -> its local state
    view,     \* MessageList: the media being decrypted and the object URLs on screen
    rtc       \* VideoCall: the peer connections and the signaling collection

vars ==
    <<enc, dec, tamper, msg, rcv, sent, rooms, client, session, kdf, chat, exported, docs,
      calls, view, rtc>>

(***************************************************************************)
(* Program constants                                                       *)
(***************************************************************************)
PBKDF2_ITERATIONS == 200000
SALT_LENGTH == 16
IV_LENGTH == 12
KEY_LENGTH == 256
\* 2 * 1024 * 1024 in the source, scaled
chunkSize == 4
\* the AES-GCM default tag of 16 bytes, scaled
TAG_LENGTH == 2
\* the page of 50 messages of getMessages, scaled
pageSize == 2

(***************************************************************************)
(* Bounds of the model                                                     *)
(***************************************************************************)
\* files of 0 .. MaxFileSize bytes: up to three full chunks and a remainder
MaxFileSize == 13
\* strings of 0 .. MaxStrLen code points
MaxStrLen == 2
\* messages exchanged in one session
MaxMsgs == 2
\* distinct values the random source can hand out in one session
MaxDraws == 6
\* send actions in one ChatRoom session
MaxCalls == 2
\* direct calls of deriveKey and verifyRoomCode
MaxKdfCalls == 3
\* activity updates of one room document
MaxActivity == 3
\* messages stored in one room
MaxDocs == 3

(***************************************************************************)
(* Generic helpers                                                         *)
(***************************************************************************)
Min(a, b) == IF a < b THEN a ELSE b

\* Blob.slice(start, end) / Array.slice on a 0-based half-open range
slice(s, start, end) ==
    LET lo == Min(start, Len(s))
        hi == Min(end, Len(s))
    IN  IF hi <= lo THEN << >> ELSE SubSeq(s, lo + 1, hi)

RECURSIVE combine(_)
\* the "Combine all chunks" loops: concatenation in list order
combine(cs) == IF cs = << >> THEN << >> ELSE Head(cs) \o combine(Tail(cs))

(***************************************************************************)
(* Text encoding: TextEncoder.encode / TextDecoder.decode                  *)
(***************************************************************************)
REPLACEMENT == 65533
BOM == 65279

\* UTF-8 encoding of one scalar value
utf8Bytes(cp) ==
    IF cp < 128 THEN <<cp>>
    ELSE IF cp < 2048 THEN <<192 + (cp \div 64), 128 + (cp % 64)>>
    ELSE IF cp < 65536
         THEN <<224 + (cp \div 4096), 128 + ((cp \div 64) % 64), 128 + (cp % 64)>>
    ELSE <<240 + (cp \div 262144), 128 + ((cp \div 4096) % 64),
           128 + ((cp \div 64) % 64), 128 + (cp % 64)>>

RECURSIVE TextEncode(_)
\* new TextEncoder().encode(str): a lone surrogate becomes U+FFFD
TextEncode(str) ==
    IF str = << >> THEN << >>
    ELSE LET cp == Head(str)
             sv == IF cp >= 55296 /\ cp <= 57343 THEN REPLACEMENT ELSE cp
         IN  utf8Bytes(sv) \o TextEncode(Tail(str))

isCont(b) == b >= 128 /\ b <= 191

\* number of continuation bytes a lead byte asks for (0: ASCII, -1: invalid)
needed(b) ==
    IF b < 128 THEN 0
    ELSE IF b >= 194 /\ b <= 223 THEN 1
    ELSE IF b >= 224 /\ b <= 239 THEN 2
    ELSE IF b >= 240 /\ b <= 244 THEN 3
    ELSE -1

\* the range the first continuation byte must lie in (overlong / surrogate / > U+10FFFF)
firstContOk(lead, b) ==
    /\ isCont(b)
    /\ (lead = 224 => b >= 160)
    /\ (lead = 237 => b <= 159)
    /\ (lead = 240 => b >= 144)
    /\ (lead = 244 => b <= 143)

\* how many of the bytes after the lead are acceptable continuation bytes
contRun(bytes, n) ==
    IF n >= 1 /\ Len(bytes) >= 2 /\ firstContOk(bytes[1], bytes[2])
    THEN IF n >= 2 /\ Len(bytes) >= 3 /\ isCont(bytes[3])
         THEN IF n >= 3 /\ Len(bytes) >= 4 /\ isCont(bytes[4]) THEN 3 ELSE 2
         ELSE 1
    ELSE 0

RECURSIVE utf8Decode(_)
\* the WHATWG UTF-8 decoder in replacement mode
utf8Decode(bytes) ==
    IF bytes = << >> THEN << >>
    ELSE LET b == bytes[1]
             n == needed(b)
             m == IF n > 0 THEN contRun(bytes, n) ELSE 0
         IN  IF n = 0 THEN <<b>> \o utf8Decode(Tail(bytes))
             ELSE IF n = -1 THEN <<REPLACEMENT>> \o utf8Decode(Tail(bytes))
             ELSE IF m < n
                  THEN <<REPLACEMENT>> \o utf8Decode(SubSeq(bytes, m + 2, Len(bytes)))
             ELSE LET cp == IF n = 1 THEN (b - 192) * 64 + (bytes[2] - 128)
                            ELSE IF n = 2
                                 THEN (b - 224) * 4096 + (bytes[2] - 128) * 64
                                      + (bytes[3] - 128)
                            ELSE (b - 240) * 262144 + (bytes[2] - 128) * 4096
                                 + (bytes[3] - 128) * 64 + (bytes[4] - 128)
                  IN  <<cp>> \o utf8Decode(SubSeq(bytes, n + 2, Len(bytes)))

\* new TextDecoder().decode(buf): ignoreBOM defaults to false, so a leading
\* U+FEFF is removed from the output
TextDecode(bytes) ==
    LET cps == utf8Decode(bytes)
    IN  IF cps # << >> /\ cps[1] = BOM THEN Tail(cps) ELSE cps

(***************************************************************************)
(* Base64: btoa(String.fromCharCode(...bytes)) and                         *)
(* Uint8Array.from(atob(str), c => c.charCodeAt(0)).                       *)
(* A base64 character is a record: kind "d" is a data character, the i-th  *)
(* of the quantum that encodes the byte group g; "=" is padding; "w" is    *)
(* ASCII whitespace; "x" is a character outside the base64 alphabet.       *)
(***************************************************************************)
b64d(g, i) == [k |-> "d", g |-> g, i |-> i]
b64pad == [k |-> "=", g |-> << >>, i |-> 0]
b64ws == [k |-> "w", g |-> << >>, i |-> 0]
b64bad == [k |-> "x", g |-> << >>, i |-> 0]

RECURSIVE btoa(_)
\* 3 bytes -> 4 data characters; a final group of 2 or 1 bytes -> 3 or 2 data
\* characters and "=" padding up to 4
btoa(bytes) ==
    IF bytes = << >> THEN << >>
    ELSE LET n == Min(3, Len(bytes))
             g == SubSeq(bytes, 1, n)
             quantum == [i \in 1..(n + 1) |-> b64d(g, i)]
                        \o [i \in 1..(3 - n) |-> b64pad]
         IN  quantum \o btoa(SubSeq(bytes, n + 1, Len(bytes)))

\* the bytes a quantum of 2..4 data characters decodes to: q - 1 bytes, each
\* determined by two neighbouring characters; `bad` stands for a byte that no
\* encoder output determines
quantumBytes(cs, bad) ==
    [j \in 1..(Len(cs) - 1) |->
        IF /\ cs[j].g = cs[j + 1].g
           /\ cs[j].i = j
           /\ cs[j + 1].i = j + 1
           /\ j <= Len(cs[j].g)
        THEN cs[j].g[j]
        ELSE bad]

RECURSIVE decodeQuanta(_, _)
decodeQuanta(cs, bad) ==
    IF Len(cs) < 2 THEN << >>
    ELSE LET n == Min(4, Len(cs))
         IN  quantumBytes(SubSeq(cs, 1, n), bad)
             \o decodeQuanta(SubSeq(cs, n + 1, Len(cs)), bad)

\* atob: the forgiving-base64 decode.  ok = FALSE is the InvalidCharacterError.
atob(str, bad) ==
    LET noWs == SelectSeq(str, LAMBDA c : c.k # "w")
        n0 == Len(noWs)
        pads == IF n0 % 4 = 0 /\ n0 > 0 /\ noWs[n0].k = "="
                THEN IF noWs[n0 - 1].k = "=" THEN 2 ELSE 1
                ELSE 0
        data == SubSeq(noWs, 1, n0 - pads)
    IN  IF Len(data) % 4 = 1 \/ \E i \in 1..Len(data) : data[i].k # "d"
        THEN [ok |-> FALSE, bytes |-> << >>]
        ELSE [ok |-> TRUE, bytes |-> decodeQuanta(data, bad)]

(***************************************************************************)
(* Keys and AES-GCM                                                        *)
(***************************************************************************)
\* PBKDF2-HMAC-SHA-256 as an ideal function of password bytes, salt and
\* iteration count: the key material is the triple itself
pbkdf2(password, salt, iterations) ==
    [pw |-> password, salt |-> salt, iter |-> iterations]

\* crypto.subtle.encrypt({name: 'AES-GCM', iv}, key, data)
aesGcmEncrypt(key, iv, data) ==
    [i \in 1..(Len(data) + TAG_LENGTH) |->
        IF i <= Len(data)
        THEN [t |-> "c", k |-> key.material, iv |-> iv, pos |-> i, d |-> <<data[i]>>]
        ELSE [t |-> "t", k |-> key.material, iv |-> iv, pos |-> i - Len(data), d |-> data]]

\* a ciphertext-typed byte that is no output of aesGcmEncrypt
junkByte == [t |-> "j", k |-> pbkdf2(<< >>, << >>, 0), iv |-> << >>, pos |-> 0, d |-> << >>]

\* variant: the data bytes released without the tag being verified
aesGcmDecryptUnchecked(key, iv, data) ==
    IF Len(data) < TAG_LENGTH THEN [ok |-> FALSE, bytes |-> << >>]
    ELSE [ok |-> TRUE,
          bytes |-> [i \in 1..(Len(data) - TAG_LENGTH) |->
                        IF data[i].t = "c" THEN data[i].d[1] ELSE 0]]

\* crypto.subtle.decrypt({name: 'AES-GCM', iv}, key, data): the OperationError
\* is ok = FALSE; no plaintext is released unless the tag verifies
aesGcmDecrypt(key, iv, data) ==
    IF Len(data) < TAG_LENGTH THEN [ok |-> FALSE, bytes |-> << >>]
    ELSE LET n == Len(data) - TAG_LENGTH
             cand == [i \in 1..n |-> IF data[i].t = "c" THEN data[i].d[1] ELSE 0]
         IN  IF data = aesGcmEncrypt(key, iv, cand)
             THEN [ok |-> TRUE, bytes |-> cand]
             ELSE [ok |-> FALSE, bytes |-> << >>]

(***************************************************************************)
(* Input domains                                                           *)
(***************************************************************************)
\* crypto.getRandomValues(new Uint8Array(n)): here one of two byte fillings
randomValues(n) == {[i \in 1..n |-> b] : b \in {7, 9}}

\* variant: a CryptoKey derived with extractable = true
CryptoKeyExtractable(material) ==
    [material |-> material, extractable |-> TRUE, usages |-> {"encrypt", "decrypt"}]

\* the CryptoKey object deriveKey returns
CryptoKeyOf(material) ==
    [material |-> material, extractable |-> FALSE, usages |-> {"encrypt", "decrypt"}]

noKey == CryptoKeyOf(pbkdf2(<< >>, << >>, 0))

\* two room keys, of the room codes "a" and "b" under one salt
Keys ==
    {CryptoKeyOf(pbkdf2(TextEncode(rc), [i \in 1..SALT_LENGTH |-> 1], PBKDF2_ITERATIONS)) :
        rc \in {<<97>>, <<98>>}}

\* file contents: the byte pattern of the large-file test (i % 256), and all zero
fileOf(n, pat) == [i \in 1..n |-> IF pat = 0 THEN (i - 1) % 256 ELSE 0]

Files == {fileOf(n, pat) : n \in 0..MaxFileSize, pat \in {0, 1}}

(***************************************************************************)
(* encryptFileStream                                                       *)
(***************************************************************************)
encIdle ==
    [pc |-> "idle", file |-> << >>, key |-> noKey, iv |-> << >>, offset |-> 0,
     chunks |-> << >>, nonces |-> << >>, blob |-> << >>, ivStr |-> << >>]

decIdle ==
    [pc |-> "idle", blob |-> << >>, ivStr |-> << >>, iv |-> << >>, key |-> noKey,
     offset |-> 0, chunks |-> << >>, tried |-> 0, out |-> << >>]

noTamper == [kind |-> "none", i |-> 0, j |-> 0]

\* variant: the plaintext is sliced by the size of a chunk ciphertext
encChunkSizeTagged == chunkSize + TAG_LENGTH

\* the chunk size encryptFileStream slices the plaintext by
encChunkSize == chunkSize

\* the nonce encryptFileStream passes to crypto.subtle.encrypt for the chunk at
\* `index` (0-based): the base nonce itself, whatever the index
chunkNonce(iv, index) == iv

\* the local variables of an encryptFileStream(file, key) call that drew iv,
\* before its loop
encStart(file, key, iv) ==
    [encIdle EXCEPT !.pc = "loop", !.file = file, !.key = key, !.iv = iv]

\* the local variables after one more iteration of the while loop
encChunkStep(e) ==
    LET chunk == slice(e.file, e.offset, e.offset + encChunkSize)
        nonce == chunkNonce(e.iv, Len(e.chunks))
        encrypted == aesGcmEncrypt(e.key, nonce, chunk)
    IN  [e EXCEPT !.chunks = Append(@, encrypted),
                  !.nonces = Append(@, nonce),
                  !.offset = @ + encChunkSize]

\* the local variables at the return statement
encReturnStep(e) ==
    [e EXCEPT !.pc = "done", !.blob = combine(e.chunks), !.ivStr = btoa(e.iv)]

\* lines 119-123: draw the nonce, start at offset 0
encryptFileStreamBegin ==
    /\ enc.pc = "idle"
    /\ \E f \in Files, k \in Keys, iv \in randomValues(IV_LENGTH) :
          enc' = encStart(f, k, iv)
    /\ UNCHANGED <<dec, tamper, msg, rcv, sent, rooms, client, session, kdf, chat, exported, docs, calls, view, rtc>>

\* lines 124-136: one iteration of the while loop
encryptFileStreamChunk ==
    /\ enc.pc = "loop"
    /\ enc.offset < Len(enc.file)
    /\ enc' = encChunkStep(enc)
    /\ UNCHANGED <<dec, tamper, msg, rcv, sent, rooms, client, session, kdf, chat, exported, docs, calls, view, rtc>>

\* lines 138-150: combine the chunks, return the blob and the base64 nonce
encryptFileStreamReturn ==
    /\ enc.pc = "loop"
    /\ ~(enc.offset < Len(enc.file))
    /\ enc' = encReturnStep(enc)
    /\ UNCHANGED <<dec, tamper, msg, rcv, sent, rooms, client, session, kdf, chat, exported, docs, calls, view, rtc>>

(***************************************************************************)
(* The untrusted transport between upload and download                     *)
(***************************************************************************)
\* what may happen to the chunk list of a stored blob
Tampers(n) ==
    {noTamper}
    \cup {[kind |-> "swap", i |-> i, j |-> j] : i \in 1..n, j \in 1..n}
    \cup {[kind |-> "truncate", i |-> m, j |-> 0] : m \in 0..n}
    \cup {[kind |-> "only", i |-> i, j |-> 0] : i \in 1..n}

tamperOk(t, n) ==
    /\ t.kind = "swap" => t.i < t.j
    /\ t.kind = "truncate" => t.i < n /\ n >= 2

tampered(chunks, t) ==
    IF t.kind = "swap"
    THEN [x \in 1..Len(chunks) |->
            IF x = t.i THEN chunks[t.j] ELSE IF x = t.j THEN chunks[t.i] ELSE chunks[x]]
    ELSE IF t.kind = "truncate" THEN SubSeq(chunks, 1, t.i)
    ELSE IF t.kind = "only" THEN <<chunks[t.i]>>
    ELSE chunks

(***************************************************************************)
(* decryptFileStream                                                       *)
(***************************************************************************)
\* variant: the encrypted blob sliced by whole chunk ciphertexts
decChunkSizeFramed == chunkSize + TAG_LENGTH

\* the chunk size decryptFileStream slices the encrypted blob by
decChunkSize == chunkSize

\* lines 165-169: decode the nonce, start at offset 0
decStart(encryptedBlob, iv, key) ==
    LET ivArray == atob(iv, 0)
    IN  [decIdle EXCEPT !.pc = IF ivArray.ok THEN "loop" ELSE "rejected",
                        !.blob = encryptedBlob,
                        !.ivStr = iv,
                        !.iv = ivArray.bytes,
                        !.key = key]

decryptFileStreamBegin ==
    /\ enc.pc = "done"
    /\ dec.pc = "idle"
    /\ \E t \in Tampers(Len(enc.chunks)), k \in Keys :
          /\ tamperOk(t, Len(enc.chunks))
          /\ dec' = decStart(combine(tampered(enc.chunks, t)), enc.ivStr, k)
          /\ tamper' = t
    /\ UNCHANGED <<enc, msg, rcv, sent, rooms, client, session, kdf, chat, exported, docs, calls, view, rtc>>

\* variant: a chunk that does not authenticate is skipped and the loop goes on
decryptFileStreamChunkSkipping ==
    /\ dec.pc = "loop"
    /\ dec.offset < Len(dec.blob)
    /\ LET chunk == slice(dec.blob, dec.offset, dec.offset + decChunkSize)
           decrypted == aesGcmDecrypt(dec.key, dec.iv, chunk)
       IN  dec' = IF decrypted.ok
                  THEN [dec EXCEPT !.chunks = Append(@, decrypted.bytes),
                                   !.tried = @ + 1,
                                   !.offset = @ + decChunkSize]
                  ELSE [dec EXCEPT !.tried = @ + 1, !.offset = @ + decChunkSize]
    /\ UNCHANGED <<enc, tamper, msg, rcv, sent, rooms, client, session, kdf, chat, exported, docs, calls, view, rtc>>

\* the local variables after one more iteration of the while loop; a chunk
\* that does not authenticate rejects the whole call
decChunkStep(d) ==
    LET chunk == slice(d.blob, d.offset, d.offset + decChunkSize)
        decrypted == aesGcmDecrypt(d.key, d.iv, chunk)
    IN  IF decrypted.ok
        THEN [d EXCEPT !.chunks = Append(@, decrypted.bytes),
                       !.tried = @ + 1,
                       !.offset = @ + decChunkSize]
        ELSE [d EXCEPT !.pc = "rejected", !.tried = @ + 1]

\* the local variables at the return statement
decReturnStep(d) == [d EXCEPT !.pc = "done", !.out = combine(d.chunks)]

\* lines 170-182: one iteration of the while loop
decryptFileStreamChunk ==
    /\ dec.pc = "loop"
    /\ dec.offset < Len(dec.blob)
    /\ dec' = decChunkStep(dec)
    /\ UNCHANGED <<enc, tamper, msg, rcv, sent, rooms, client, session, kdf, chat, exported, docs, calls, view, rtc>>

\* lines 184-193: combine the chunks, return the blob
decryptFileStreamReturn ==
    /\ dec.pc = "loop"
    /\ ~(dec.offset < Len(dec.blob))
    /\ dec' = decReturnStep(dec)
    /\ UNCHANGED <<enc, tamper, msg, rcv, sent, rooms, client, session, kdf, chat, exported, docs, calls, view, rtc>>

(***************************************************************************)
(* encryptString / decryptString                                           *)
(***************************************************************************)
\* code points of the test strings: "A", e-acute, the euro sign, the rocket
\* emoji and U+FEFF
Alphabet == {65, 233, 8364, 128640, BOM}

RECURSIVE seqsUpTo(_, _)
seqsUpTo(S, n) ==
    IF n = 0 THEN {<< >>}
    ELSE LET shorter == seqsUpTo(S, n - 1)
         IN  shorter \cup {Append(q, x) : q \in shorter, x \in S}

Strings == seqsUpTo(Alphabet, MaxStrLen)

\* what TextDecoder does with a decrypted buffer
decodePlaintext(bytes) == TextDecode(bytes)

\* encryptString(plaintext, key), with the nonce getRandomValues drew
encryptString(plaintext, key, iv) ==
    LET encoded == TextEncode(plaintext)
        ciphertext == aesGcmEncrypt(key, iv, encoded)
    IN  [ciphertext |-> btoa(ciphertext), iv |-> btoa(iv)]

\* decryptString(ciphertext, iv, key): ok = FALSE is a rejected promise
decryptString(ciphertext, iv, key) ==
    LET ciphertextArray == atob(ciphertext, junkByte)
        ivArray == atob(iv, 0)
    IN  IF ~ciphertextArray.ok \/ ~ivArray.ok THEN [ok |-> FALSE, text |-> << >>]
        ELSE LET plaintext == aesGcmDecrypt(key, ivArray.bytes, ciphertextArray.bytes)
             IN  IF plaintext.ok
                 THEN [ok |-> TRUE, text |-> decodePlaintext(plaintext.bytes)]
                 ELSE [ok |-> FALSE, text |-> << >>]

msgIdle ==
    [pc |-> "idle", from |-> "A", plaintext |-> << >>, key |-> noKey,
     ciphertext |-> << >>, iv |-> << >>]

rcvIdle ==
    [pc |-> "idle", ciphertext |-> << >>, iv |-> << >>, key |-> noKey, text |-> << >>]

stripPad(str) == SelectSeq(str, LAMBDA c : c.k # "=")

\* the base64 texts the transport may hand to the receiver in place of `str`,
\* the encoding of `bytes`; `others` are different byte strings of the same kind
deliveries(str, bytes, others) ==
    { str,
      Append(str, b64ws),
      stripPad(str),
      Append(str, b64bad),
      btoa(SubSeq(bytes, 1, Len(bytes) - 1)) }
    \cup {btoa(o) : o \in others}

\* a client encrypts a message and stores the envelope on the transport
sendString ==
    /\ msg.pc = "idle"
    /\ sent < MaxMsgs
    /\ \E from \in {"A", "B"}, p \in Strings, k \in Keys, iv \in randomValues(IV_LENGTH) :
          LET e == encryptString(p, k, iv)
          IN  msg' = [pc |-> "sent", from |-> from, plaintext |-> p, key |-> k,
                      ciphertext |-> e.ciphertext, iv |-> e.iv]
    /\ UNCHANGED <<enc, dec, tamper, rcv, sent, rooms, client, session, kdf, chat, exported, docs, calls, view, rtc>>

\* the other client decrypts what the transport delivers
receiveString ==
    /\ msg.pc = "sent"
    /\ rcv.pc = "idle"
    /\ LET cBytes == atob(msg.ciphertext, junkByte).bytes
           ivBytes == atob(msg.iv, 0).bytes
       IN  \E c \in deliveries(msg.ciphertext, cBytes, {[cBytes EXCEPT ![1] = junkByte]}),
              iv \in deliveries(msg.iv, ivBytes,
                                randomValues(IV_LENGTH) \cup randomValues(SALT_LENGTH)),
              k \in Keys :
              LET r == decryptString(c, iv, k)
              IN  rcv' = [pc |-> IF r.ok THEN "done" ELSE "rejected",
                          ciphertext |-> c, iv |-> iv, key |-> k, text |-> r.text]
    /\ UNCHANGED <<enc, dec, tamper, msg, sent, rooms, client, session, kdf, chat, exported, docs, calls, view, rtc>>

\* the exchange is over; the next message may go in either direction
nextMessage ==
    /\ rcv.pc # "idle"
    /\ msg' = msgIdle
    /\ rcv' = rcvIdle
    /\ sent' = sent + 1
    /\ UNCHANGED <<enc, dec, tamper, rooms, client, session, kdf, chat, exported, docs, calls, view, rtc>>

(***************************************************************************)
(* Key derivation and the verifier                                         *)
(***************************************************************************)
\* generateSalt(): base64 of SALT_LENGTH random bytes
generateSalt == {btoa(r) : r \in randomValues(SALT_LENGTH)}

\* a deriveKey whose result changes from one call to the next
deriveKeyPerCall(roomCode, salt) ==
    LET saltArray == atob(salt, 0)
    IN  IF ~saltArray.ok THEN [ok |-> FALSE, key |-> noKey]
        ELSE [ok |-> TRUE,
              key |-> CryptoKeyOf(pbkdf2(TextEncode(roomCode), saltArray.bytes,
                                         PBKDF2_ITERATIONS + Cardinality(kdf.calls)))]

\* deriveKey(roomCode, salt) for a base64 salt: ok = FALSE is atob throwing.
\* The derived CryptoKey is not extractable.
deriveKey(roomCode, salt) ==
    LET saltArray == atob(salt, 0)
    IN  IF ~saltArray.ok THEN [ok |-> FALSE, key |-> noKey]
        ELSE [ok |-> TRUE,
              key |-> CryptoKeyOf(pbkdf2(TextEncode(roomCode), saltArray.bytes,
                                         PBKDF2_ITERATIONS))]

\* SHA-256 as an ideal digest of its input
sha256(data) == [digest |-> data]

noHash == [digest |-> pbkdf2(<< >>, << >>, 0)]

\* crypto.subtle.exportKey('raw', key): the key material, or InvalidAccessError
\* (ok = FALSE) for a key that is not extractable
exportKey(key) ==
    IF key.extractable
    THEN [ok |-> TRUE, raw |-> key.material]
    ELSE [ok |-> FALSE, raw |-> pbkdf2(<< >>, << >>, 0)]

\* computeVerifierHash(key): exportKey('raw', key) throws InvalidAccessError
\* for a key that is not extractable (ok = FALSE)
computeVerifierHash(key) ==
    IF exportKey(key).ok
    THEN [ok |-> TRUE, hash |-> sha256(exportKey(key).raw)]
    ELSE [ok |-> FALSE, hash |-> noHash]

\* the raw key bytes that verifier computation on deriveKey(roomCode, salt)
\* gets hold of
rawObtained(roomCode, salt) ==
    LET key == deriveKey(roomCode, salt)
    IN  IF key.ok /\ exportKey(key.key).ok THEN {exportKey(key.key).raw} ELSE {}

\* the try block of verifyRoomCode: ok = FALSE is deriveKey or
\* computeVerifierHash throwing
verifyRoomCodeTry(roomCode, salt, expectedHash) ==
    LET key == deriveKey(roomCode, salt)
        hash == IF key.ok THEN computeVerifierHash(key.key) ELSE [ok |-> FALSE, hash |-> noHash]
    IN  IF key.ok /\ hash.ok
        THEN [ok |-> TRUE, value |-> hash.hash = expectedHash]
        ELSE [ok |-> FALSE, value |-> FALSE]

\* verifyRoomCode without its catch clause
verifyRoomCodeUncaught(roomCode, salt, expectedHash) ==
    verifyRoomCodeTry(roomCode, salt, expectedHash)

\* verifyRoomCode(roomCode, salt, expectedHash): any exception is caught and
\* gives false; ok = FALSE would be an exception reaching the caller
verifyRoomCode(roomCode, salt, expectedHash) ==
    LET r == verifyRoomCodeTry(roomCode, salt, expectedHash)
    IN  IF r.ok THEN r ELSE [ok |-> TRUE, value |-> FALSE]

(***************************************************************************)
(* RoomJoin: handleCreateRoom / handleJoinRoom, and the room store         *)
(***************************************************************************)
Clients == {"A", "B"}

\* what a user may type: "", " ", "a", "b"
RoomCodes == {<< >>, <<32>>, <<97>>, <<98>>}

\* the white space String.prototype.trim strips: here the space and U+FEFF
isSpace(cp) == cp \in {32, BOM}

RECURSIVE trimStart(_)
trimStart(str) ==
    IF str # << >> /\ isSpace(Head(str)) THEN trimStart(Tail(str)) ELSE str

RECURSIVE trimEnd(_)
trimEnd(str) ==
    IF str # << >> /\ isSpace(str[Len(str)]) THEN trimEnd(SubSeq(str, 1, Len(str) - 1)) ELSE str

\* String.prototype.trim
trim(str) == trimEnd(trimStart(str))

\* generateRoomId(roomCode): the first 32 hex digits of SHA-256 of the
\* UTF-8 bytes of the code
generateRoomId(roomCode) == sha256(TextEncode(roomCode))

RoomIds == {generateRoomId(rc) : rc \in RoomCodes}

\* lastActivity counts the activity updates since createRoom wrote the document
noRoom ==
    [exists |-> FALSE, salt |-> << >>, hasVerifier |-> FALSE, verifierHash |-> noHash,
     lastActivity |-> 0]

\* createRoom(roomId, salt, verifierHash): setDoc replaces the document
createRoom(store, roomId, salt, verifierHash) ==
    [store EXCEPT ![roomId] =
        [exists |-> TRUE, salt |-> salt, hasVerifier |-> TRUE, verifierHash |-> verifierHash,
         lastActivity |-> 0]]

\* updateRoomActivity(roomId): setDoc with merge writes lastActivity only, and
\* creates the document if there is none
updateRoomActivity(store, roomId) ==
    [store EXCEPT ![roomId].exists = TRUE, ![roomId].lastActivity = @ + 1]

\* getRoomMetadata(roomId)
\* variant: a snapshot is returned for a room that is not stored
getRoomMetadataAny(store, roomId) == [store[roomId] EXCEPT !.exists = TRUE]

getRoomMetadata(store, roomId) == store[roomId]

noRoomState == [roomId |-> << >>, roomCode |-> << >>, key |-> noKey, salt |-> << >>]

\* roomCode, error, joined and roomState are the component's state; the other
\* fields record the last handler run: which one, on which room code, with
\* which salt, and which clients had entered through handleCreateRoom by then
clientInit ==
    [roomCode |-> << >>, error |-> "", joined |-> FALSE, roomState |-> noRoomState,
     last |-> "none", ranCode |-> << >>, ranSalt |-> << >>, creators |-> {}]

\* the room code input's onChange
setRoomCode(c) ==
    /\ ~client[c].joined
    /\ \E rc \in RoomCodes :
          client' = [client EXCEPT ![c].roomCode = rc]
    /\ UNCHANGED <<enc, dec, tamper, msg, rcv, sent, rooms, session, kdf, chat, exported, docs, calls, view, rtc>>

\* handleCreateRoom, every transport call succeeding
handleCreateRoom(c) ==
    /\ ~client[c].joined
    /\ LET roomCode == client[c].roomCode
       IN  IF trim(roomCode) = << >>
           THEN /\ client' = [client EXCEPT ![c].error = "Please enter a room code",
                                            ![c].last = "create-blank"]
                /\ UNCHANGED <<rooms, exported, docs, calls, view, rtc>>
           ELSE \E salt \in generateSalt :
                   LET key == deriveKey(roomCode, salt)
                       verifierHash == IF key.ok THEN computeVerifierHash(key.key)
                                       ELSE [ok |-> FALSE, hash |-> noHash]
                       roomId == generateRoomId(roomCode)
                   IN  /\ exported' = exported \cup rawObtained(roomCode, salt)
                       /\ IF key.ok /\ verifierHash.ok
                          THEN /\ rooms' = createRoom(rooms, roomId, salt, verifierHash.hash)
                               /\ client' = [client EXCEPT
                                     ![c].error = "",
                                     ![c].joined = TRUE,
                                     ![c].last = "create",
                                     ![c].ranCode = roomCode,
                                     ![c].ranSalt = salt,
                                     ![c].roomState = [roomId |-> roomId, roomCode |-> roomCode,
                                                       key |-> key.key, salt |-> salt]]
                          ELSE /\ client' = [client EXCEPT
                                     ![c].error = "Failed to create room. Please try again.",
                                     ![c].last = "create",
                                     ![c].ranCode = roomCode,
                                     ![c].ranSalt = salt]
                               /\ UNCHANGED rooms
    /\ UNCHANGED <<enc, dec, tamper, msg, rcv, sent, session, kdf, chat, docs, calls, view, rtc>>

\* handleJoinRoom, every transport call succeeding
handleJoinRoom(c) ==
    /\ ~client[c].joined
    /\ LET roomCode == client[c].roomCode
           roomId == generateRoomId(roomCode)
           metadata == getRoomMetadata(rooms, roomId)
           isValid == verifyRoomCode(roomCode, metadata.salt, metadata.verifierHash)
           key == deriveKey(roomCode, metadata.salt)
           creators == {a \in Clients \ {c} : client[a].joined /\ client[a].last = "create"}
           ran(msg0) == [client EXCEPT ![c].error = msg0, ![c].last = "join",
                                       ![c].ranCode = roomCode, ![c].creators = creators]
       IN  client' =
             IF trim(roomCode) = << >>
             THEN [client EXCEPT ![c].error = "Please enter a room code",
                                 ![c].last = "join-blank"]
             ELSE IF ~metadata.exists
             THEN ran("Room not found. Please check your room code.")
             ELSE IF metadata.hasVerifier /\ isValid.ok /\ ~isValid.value
             THEN ran("Invalid room code. Please check and try again.")
             ELSE IF (metadata.hasVerifier /\ ~isValid.ok) \/ ~key.ok
             THEN ran("Failed to join room. Please check your room code and try again.")
             ELSE [client EXCEPT
                     ![c].error = "",
                     ![c].joined = TRUE,
                     ![c].last = "join",
                     ![c].ranCode = roomCode,
                     ![c].creators = creators,
                     ![c].roomState = [roomId |-> roomId, roomCode |-> roomCode,
                                       key |-> key.key, salt |-> metadata.salt]]
    /\ LET roomCode == client[c].roomCode
           metadata == getRoomMetadata(rooms, generateRoomId(roomCode))
       IN  exported' =
             IF trim(roomCode) # << >> /\ metadata.exists /\ metadata.hasVerifier
             THEN exported \cup rawObtained(roomCode, metadata.salt)
             ELSE exported
    /\ UNCHANGED <<enc, dec, tamper, msg, rcv, sent, rooms, session, kdf, chat, docs, calls, view, rtc>>

\* App.handleLeaveRoom: back to the join form
handleLeaveRoom(c) ==
    /\ client[c].joined
    /\ client' = [client EXCEPT ![c] = clientInit]
    /\ UNCHANGED <<enc, dec, tamper, msg, rcv, sent, rooms, session, kdf, chat, exported, docs, calls, view, rtc>>

(***************************************************************************)
(* The messages of a room: sendMessage                                     *)
(***************************************************************************)
\* roomState.roomId and roomState.key of the ChatRoom session: the room of
\* the code "a"
chatRoomId == generateRoomId(<<97>>)

roomKey ==
    CryptoKeyOf(pbkdf2(TextEncode(<<97>>), [i \in 1..SALT_LENGTH |-> 1], PBKDF2_ITERATIONS))

\* An envelope {ciphertext, iv} is kept as the arguments of the encryptString
\* call that made it; envelope(e) is the pair of base64 texts itself.
sealed(plaintext, key, iv) == [plaintext |-> plaintext, key |-> key, nonce |-> iv]

noEnvelope == [plaintext |-> << >>, key |-> noKey, nonce |-> << >>]

envelope(e) == encryptString(e.plaintext, e.key, e.nonce)

\* the message handleSendMessage passes to sendMessage
textMessage(text, key, iv) ==
    [contentType |-> "text", ciphertext |-> sealed(text, key, iv), hasMedia |-> FALSE,
     fileName |-> noEnvelope, mimeType |-> noEnvelope, mediaIv |-> << >>,
     storagePath |-> 0]

\* the message handleSendFile and onstop pass to sendMessage: ciphertext '',
\* mediaMeta with the encrypted file name and MIME type; storagePath is the
\* place of the uploaded blob in the storage (0 while it is not recorded)
fileMessage(contentType, fileName, mimeType, key, ivs) ==
    [contentType |-> contentType, ciphertext |-> noEnvelope, hasMedia |-> TRUE,
     fileName |-> sealed(fileName, key, ivs[2]), mimeType |-> sealed(mimeType, key, ivs[3]),
     mediaIv |-> ivs[1], storagePath |-> 0]

\* addDoc(messagesRef, message): the document gets an id of its own
addDoc(collection, message) ==
    Append(collection, [id |-> Len(collection) + 1, data |-> message])

\* sendMessage(roomId, message): updateRoomActivity, then addDoc
sendMessage(roomId, message) ==
    /\ rooms' = updateRoomActivity(rooms, roomId)
    /\ docs' = [docs EXCEPT ![roomId] = addDoc(@, message)]

(***************************************************************************)
(* ChatRoom / MediaRecorder: the encryption calls of one session           *)
(***************************************************************************)
\* the values crypto.getRandomValues hands out in one session: a draw never
\* repeats an earlier one (the nonces are 96 random bits)
sessionValues(n) == {[i \in 1..n |-> b] : b \in 1..MaxDraws}

getRandomValues(n, drawn) == sessionValues(n) \ drawn

\* "application/octet-stream", "recording.webm", "audio/webm", "video/webm"
octetStream ==
    <<97, 112, 112, 108, 105, 99, 97, 116, 105, 111, 110, 47,
      111, 99, 116, 101, 116, 45, 115, 116, 114, 101, 97, 109>>
recordingName == <<114, 101, 99, 111, 114, 100, 105, 110, 103, 46, 119, 101, 98, 109>>
audioWebm == <<97, 117, 100, 105, 111, 47, 119, 101, 98, 109>>
videoWebm == <<118, 105, 100, 101, 111, 47, 119, 101, 98, 109>>

\* what the user types, and the files the user picks
Texts == {<<65>>, <<BOM, 65>>, <<32>>}

SessionFiles ==
    { [name |-> <<65>>, type |-> <<65>>, data |-> fileOf(chunkSize + 1, 0)],
      [name |-> <<BOM, 65>>, type |-> << >>, data |-> fileOf(0, 0)] }

sessionInit == [drawn |-> {}, ops |-> << >>, calls |-> 0]

\* one encryptString call as the session records it: its plaintext and the
\* nonce it drew
stringOp(call, field, plaintext, iv) ==
    [call |-> call, op |-> "encryptString", field |-> field, plaintext |-> plaintext,
     nonces |-> <<iv>>]

\* one encryptFileStream call: its input and the nonce of every chunk
streamOp(call, data, iv) ==
    [call |-> call, op |-> "encryptFileStream", field |-> "media", plaintext |-> data,
     nonces |-> [i \in 1..((Len(data) + chunkSize - 1) \div chunkSize) |->
                    chunkNonce(iv, i - 1)]]

\* the encryption calls of handleSendFile / onstop on `file`, ivs being the
\* three values drawn by encryptFileStream and the two encryptString calls
sendFileOpsShared(call, file, mimeType, ivs) ==
    << streamOp(call, file.data, ivs[1]),
       stringOp(call, "fileName", file.name, ivs[1]),
       stringOp(call, "mimeType", mimeType, ivs[3]) >>

sendFileOps(call, file, mimeType, ivs) ==
    << streamOp(call, file.data, ivs[1]),
       stringOp(call, "fileName", file.name, ivs[2]),
       stringOp(call, "mimeType", mimeType, ivs[3]) >>

draws3(drawn) ==
    { <<a, b, c>> : a \in getRandomValues(IV_LENGTH, drawn),
                    b \in getRandomValues(IV_LENGTH, drawn),
                    c \in getRandomValues(IV_LENGTH, drawn) }

\* the three draws of one send-file action, each new
freshDraws(drawn) ==
    { d \in draws3(drawn) : d[1] # d[2] /\ d[1] # d[3] /\ d[2] # d[3] }

handleSendMessage ==
    /\ session.calls < MaxCalls
    /\ \E text \in Texts :
          IF trim(text) = << >>
          THEN /\ session' = [session EXCEPT !.calls = @ + 1]
               /\ UNCHANGED <<rooms, docs, calls, view, rtc>>
          ELSE \E iv \in getRandomValues(IV_LENGTH, session.drawn) :
                  /\ session' = [drawn |-> session.drawn \cup {iv},
                                 ops |-> Append(session.ops,
                                                stringOp(session.calls + 1, "text", text, iv)),
                                 calls |-> session.calls + 1]
                  /\ sendMessage(chatRoomId, textMessage(text, roomKey, iv))
    /\ UNCHANGED <<enc, dec, tamper, msg, rcv, sent, client, kdf, chat, exported, calls, view, rtc>>

handleSendFile ==
    /\ session.calls < MaxCalls
    /\ \E file \in SessionFiles, ivs \in freshDraws(session.drawn) :
          LET mimeType == IF file.type = << >> THEN octetStream ELSE file.type
              sent3 == sendFileOps(session.calls + 1, file, mimeType, ivs)
          IN  /\ session' = [drawn |-> session.drawn \cup {ivs[1], ivs[2], ivs[3]},
                             ops |-> session.ops \o sent3,
                             calls |-> session.calls + 1]
              /\ sendMessage(chatRoomId,
                             fileMessage("file", file.name, mimeType, roomKey,
                                         <<ivs[1], sent3[2].nonces[1],
                                           sent3[3].nonces[1]>>))
    /\ UNCHANGED <<enc, dec, tamper, msg, rcv, sent, client, kdf, chat, exported, calls, view, rtc>>

\* MediaRecorder: mediaRecorder.onstop encrypts and uploads the recording
onstop ==
    /\ session.calls < MaxCalls
    /\ \E type \in {audioWebm, videoWebm}, ivs \in freshDraws(session.drawn) :
          LET file == [name |-> recordingName, type |-> type,
                       data |-> fileOf(chunkSize + 1, 1)]
              sent3 == sendFileOps(session.calls + 1, file, type, ivs)
          IN  /\ session' = [drawn |-> session.drawn \cup {ivs[1], ivs[2], ivs[3]},
                             ops |-> session.ops \o sent3,
                             calls |-> session.calls + 1]
              /\ sendMessage(chatRoomId,
                             fileMessage(IF type = audioWebm THEN "audio" ELSE "video",
                                         file.name, type, roomKey,
                                         <<ivs[1], sent3[2].nonces[1],
                                           sent3[3].nonces[1]>>))
    /\ UNCHANGED <<enc, dec, tamper, msg, rcv, sent, client, kdf, chat, exported, calls, view, rtc>>

(***************************************************************************)
(* Direct calls of deriveKey and verifyRoomCode                            *)
(***************************************************************************)
\* arguments of the calls: the room codes "" and "a"; as salt the base64 of
\* SALT_LENGTH bytes, the base64 of IV_LENGTH bytes, and a text atob rejects
KdfCodes == {<< >>, <<97>>}

KdfSalts ==
    { btoa([i \in 1..SALT_LENGTH |-> 1]), btoa([i \in 1..IV_LENGTH |-> 1]), <<b64bad>> }

\* expected hashes: the SHA-256 of the key of ("a", the 16-byte salt), and another
KdfHashes == { sha256(pbkdf2(TextEncode(<<97>>), [i \in 1..SALT_LENGTH |-> 1], PBKDF2_ITERATIONS)),
               noHash }

kdfInit == [calls |-> {}]

\* some client calls deriveKey(roomCode, salt)
callDeriveKey ==
    /\ Cardinality(kdf.calls) < MaxKdfCalls
    /\ \E c \in Clients, roomCode \in KdfCodes, salt \in KdfSalts :
          LET r == deriveKey(roomCode, salt)
          IN  kdf' = [kdf EXCEPT !.calls =
                        @ \cup {[fn |-> "deriveKey", client |-> c, roomCode |-> roomCode,
                                  salt |-> salt, expectedHash |-> noHash,
                                  ok |-> r.ok, key |-> r.key, value |-> FALSE]}]
    /\ UNCHANGED <<enc, dec, tamper, msg, rcv, sent, rooms, client, session, chat, exported, docs, calls, view, rtc>>

\* some client calls verifyRoomCode(roomCode, salt, expectedHash)
callVerifyRoomCode ==
    /\ Cardinality(kdf.calls) < MaxKdfCalls
    /\ \E c \in Clients, roomCode \in KdfCodes, salt \in KdfSalts, expectedHash \in KdfHashes :
          /\ LET r == verifyRoomCode(roomCode, salt, expectedHash)
             IN  kdf' = [kdf EXCEPT !.calls =
                           @ \cup {[fn |-> "verifyRoomCode", client |-> c, roomCode |-> roomCode,
                                     salt |-> salt, expectedHash |-> expectedHash,
                                     ok |-> r.ok, key |-> noKey, value |-> r.value]}]
          /\ exported' = exported \cup rawObtained(roomCode, salt)
    /\ UNCHANGED <<enc, dec, tamper, msg, rcv, sent, rooms, client, session, chat, docs, calls, view, rtc>>

(***************************************************************************)
(* firebase.ts called directly: createRoom, updateRoomActivity, sendMessage *)
(***************************************************************************)
\* the rooms the calls are made on: those of the codes "a" and "b"
StoreIds == {generateRoomId(<<97>>), generateRoomId(<<98>>)}

callCreateRoom ==
    /\ \E roomId \in StoreIds, salt \in generateSalt, verifierHash \in KdfHashes :
          rooms' = createRoom(rooms, roomId, salt, verifierHash)
    /\ UNCHANGED <<enc, dec, tamper, msg, rcv, sent, client, session, kdf, chat, exported, docs, calls, view, rtc>>

callUpdateRoomActivity ==
    /\ \E roomId \in StoreIds :
          /\ rooms[roomId].lastActivity < MaxActivity
          /\ rooms' = updateRoomActivity(rooms, roomId)
    /\ UNCHANGED <<enc, dec, tamper, msg, rcv, sent, client, session, kdf, chat, exported, docs, calls, view, rtc>>

\* a client sends a text message to the room, under its key
callSendMessage ==
    /\ \E roomId \in StoreIds, k \in Keys :
          /\ rooms[roomId].lastActivity < MaxActivity
          /\ Len(docs[roomId]) < MaxDocs
          /\ sendMessage(roomId, textMessage(<<65>>, k, [i \in 1..IV_LENGTH |-> 7]))
    /\ UNCHANGED <<enc, dec, tamper, msg, rcv, sent, client, session, kdf, chat, exported, calls, view, rtc>>

(***************************************************************************)
(* ChatRoom: loading the stored messages                                   *)
(***************************************************************************)
\* getMessages(roomId, pageSize, lastDoc) on the room's collection: the
\* pageSize newest documents, or those next after lastDoc going back in time,
\* returned oldest first; the cursor returned is the first document of the
\* snapshot, the newest of the page.  lastDoc = 0 is null.
getMessages(collection, lastDoc) ==
    LET older == IF lastDoc = 0 THEN collection ELSE SubSeq(collection, 1, lastDoc - 1)
        n == Len(older)
        page == SubSeq(older, IF n > pageSize THEN n - pageSize + 1 ELSE 1, n)
    IN  [messages |-> page,
         lastDoc |-> IF page = << >> THEN 0 ELSE page[Len(page)].id]

\* 'encrypted-file'
encryptedFile == <<101, 110, 99, 114, 121, 112, 116, 101, 100, 45, 102, 105, 108, 101>>

noMessage ==
    [id |-> 0, content |-> << >>, contentType |-> "text", fileName |-> << >>,
     mimeType |-> << >>, mediaUrl |-> 0, mediaIv |-> << >>, doc |-> 0]

\* decryptString on a stored envelope, under the room key
opened(e) == decryptString(envelope(e).ciphertext, envelope(e).iv, roomKey)

\* decryptMessage({...msg, id: ''}): ok = FALSE is the rethrown error of
\* decrypting the content; a file name or MIME type that fails to decrypt is
\* replaced.  The field doc records the stored document the message is of.
decryptMessage(encryptedMsg) ==
    LET data == encryptedMsg.data
        content == IF data.ciphertext # noEnvelope THEN opened(data.ciphertext)
                   ELSE [ok |-> TRUE, text |-> << >>]
    IN  IF ~content.ok THEN [ok |-> FALSE, msg |-> noMessage]
        ELSE [ok |-> TRUE,
              msg |-> [id |-> 0, content |-> content.text, contentType |-> data.contentType,
                       fileName |-> IF ~data.hasMedia THEN << >>
                                    ELSE IF opened(data.fileName).ok
                                    THEN opened(data.fileName).text ELSE encryptedFile,
                       mimeType |-> IF data.hasMedia /\ opened(data.mimeType).ok
                                    THEN opened(data.mimeType).text ELSE << >>,
                       mediaUrl |-> data.storagePath,
                       mediaIv |-> IF data.hasMedia THEN data.mediaIv
                                   ELSE data.ciphertext.nonce,
                       doc |-> encryptedMsg.id]]

\* Promise.all over decryptMessage: rejected as soon as one is
promiseAll(newMessages) ==
    LET results == [i \in 1..Len(newMessages) |-> decryptMessage(newMessages[i])]
    IN  [ok |-> \A i \in 1..Len(newMessages) : results[i].ok,
         decrypted |-> [i \in 1..Len(newMessages) |-> results[i].msg]]

\* a client of the chat room sends a text message, under the room key or
\* under the key of another room code
roomSendMessage ==
    /\ Len(docs[chatRoomId]) < MaxDocs
    /\ \E k \in Keys :
          sendMessage(chatRoomId, textMessage(<<65>>, k, [i \in 1..IV_LENGTH |-> 7]))
    /\ UNCHANGED <<enc, dec, tamper, msg, rcv, sent, client, session, kdf, chat, exported, calls, view, rtc>>

\* no getMessages call in flight
noQuery == [fn |-> "none", got |-> [messages |-> << >>, lastDoc |-> 0]]

\* The component state after mount: loadMessages has been called and the
\* listener of subscribeToMessages is registered.  query is the getMessages
\* call in flight with the snapshot it resolves to, snapshot the newest
\* document the listener has reported, callbacks the documents whose
\* subscription callback is suspended in decryptMessage.  The other fields
\* are records of what happened: last and page the handler that completed last
\* and the page it fetched, cursorPage the page lastDoc was taken from, prev
\* the page whose cursor the last getMessages call was given, early the
\* documents the subscription appended before loadMessages completed.
chatInit ==
    [messages |-> << >>, loading |-> TRUE, loadingMore |-> FALSE, hasMore |-> TRUE,
     lastDoc |-> 0, last |-> "none", page |-> << >>,
     query |-> noQuery, snapshot |-> 0, callbacks |-> {},
     cursorPage |-> << >>, prev |-> << >>, early |-> {}]

\* loadMessages up to its first await: getMessages(roomId) reads the newest page
loadMessagesFetch ==
    /\ chat.last = "none"
    /\ chat.query = noQuery
    /\ chat' = [chat EXCEPT !.query = [fn |-> "loadMessages",
                                       got |-> getMessages(docs[chatRoomId], 0)]]
    /\ UNCHANGED <<enc, dec, tamper, msg, rcv, sent, rooms, client, session, kdf, exported, docs, calls, view, rtc>>
\* loadMessages from the result of getMessages on: decrypt the page, replace
\* the list
loadMessages ==
    /\ chat.query.fn = "loadMessages"
    /\ LET got == chat.query.got
           all == promiseAll(got.messages)
       IN  chat' = IF all.ok
                   THEN [chat EXCEPT !.messages = all.decrypted,
                                     !.lastDoc = got.lastDoc,
                                     !.hasMore = (Len(got.messages) = pageSize),
                                     !.loading = FALSE,
                                     !.query = noQuery,
                                     !.cursorPage = got.messages,
                                     !.last = "loadMessages", !.page = got.messages]
                   ELSE [chat EXCEPT !.loading = FALSE,
                                     !.query = noQuery,
                                     !.last = "loadMessages", !.page = got.messages]
    /\ UNCHANGED <<enc, dec, tamper, msg, rcv, sent, rooms, client, session, kdf, exported, docs, calls, view, rtc>>
\* the "Load older messages" button, shown once loading is over:
\* loadMoreMessages up to its await, getMessages(roomId, 50, lastDocRef.current)
loadMoreMessagesFetch ==
    /\ ~chat.loading
    /\ ~chat.loadingMore /\ chat.hasMore
    /\ chat' = [chat EXCEPT !.loadingMore = TRUE,
                            !.query = [fn |-> "loadMoreMessages",
                                       got |-> getMessages(docs[chatRoomId], chat.lastDoc)],
                            !.prev = chat.cursorPage]
    /\ UNCHANGED <<enc, dec, tamper, msg, rcv, sent, rooms, client, session, kdf, exported, docs, calls, view, rtc>>
\* loadMoreMessages from the result of getMessages on: decrypt the page, put
\* it in front of the list
loadMoreMessages ==
    /\ chat.query.fn = "loadMoreMessages"
    /\ LET got == chat.query.got
           all == promiseAll(got.messages)
           end == [chat EXCEPT !.loadingMore = FALSE, !.query = noQuery,
                               !.last = "loadMoreMessages", !.page = got.messages]
       IN  chat' = IF Len(got.messages) = 0
                   THEN [end EXCEPT !.hasMore = FALSE]
                   ELSE IF all.ok
                   THEN [end EXCEPT !.messages = all.decrypted \o @,
                                    !.lastDoc = got.lastDoc,
                                    !.cursorPage = got.messages,
                                    !.hasMore = (Len(got.messages) = pageSize)]
                   ELSE end
    /\ UNCHANGED <<enc, dec, tamper, msg, rcv, sent, rooms, client, session, kdf, exported, docs, calls, view, rtc>>
\* the listener of subscribeToMessages (newest document first, limit 1): the
\* newest document of the room is reported as added, on the first snapshot
\* and whenever a newer one is stored; the callback runs up to its await
onSnapshot ==
    /\ docs[chatRoomId] # << >>
    /\ LET newest == docs[chatRoomId][Len(docs[chatRoomId])]
       IN  /\ newest.id > chat.snapshot
           /\ chat' = [chat EXCEPT !.snapshot = newest.id,
                                   !.callbacks = @ \cup {newest.id}]
    /\ UNCHANGED <<enc, dec, tamper, msg, rcv, sent, rooms, client, session, kdf, exported, docs, calls, view, rtc>>
\* the subscription callback from the result of decryptMessage on: append the
\* message unless one with its id is in the list; a failure is logged
subscriptionCallback ==
    /\ \E id \in chat.callbacks :
          LET encryptedMsg == docs[chatRoomId][id]
              decrypted == decryptMessage(encryptedMsg)
              duplicate == \E i \in 1..Len(chat.messages) : chat.messages[i].id = id
          IN  chat' = IF decrypted.ok /\ ~duplicate
                      THEN [chat EXCEPT !.messages = Append(@, [decrypted.msg EXCEPT !.id = id]),
                                        !.callbacks = @ \ {id},
                                        !.early = IF chat.last = "none" THEN @ \cup {id} ELSE @]
                      ELSE [chat EXCEPT !.callbacks = @ \ {id}]
    /\ UNCHANGED <<enc, dec, tamper, msg, rcv, sent, rooms, client, session, kdf, exported, docs, calls, view, rtc>>
\* ---- crypto calls running concurrently on one key ----

MaxConcurrent == 2

\* the inputs of the concurrent calls: files of no, one and two chunks, one text
ConcurrentFiles == {fileOf(n, 0) : n \in {0, 2, 5}}

ConcurrentTexts == {<<65>>}

\* a promise is settled once it is fulfilled or rejected
settled(st) == st.pc \in {"done", "rejected"}

\* the local variables of an encryptString(plaintext, key) call that drew iv,
\* suspended at its await
encryptStringStart(plaintext, key, iv) ==
    [pc |-> "await", plaintext |-> plaintext, key |-> key, iv |-> iv,
     result |-> [ciphertext |-> << >>, iv |-> << >>]]

\* the local variables of a decryptString(ciphertext, iv, key) call
decryptStringStart(ciphertext, iv, key) ==
    [pc |-> "await", ciphertext |-> ciphertext, iv |-> iv, key |-> key,
     result |-> [ok |-> FALSE, text |-> << >>]]

\* the local variables of a call of fn after it resumes from one more await
advance(fn, st) ==
    CASE fn = "encryptString" ->
            [st EXCEPT !.pc = "done",
                       !.result = encryptString(st.plaintext, st.key, st.iv)]
      [] fn = "decryptString" ->
            LET r == decryptString(st.ciphertext, st.iv, st.key)
            IN  [st EXCEPT !.pc = IF r.ok THEN "done" ELSE "rejected", !.result = r]
      [] fn = "encryptFileStream" ->
            IF st.offset < Len(st.file) THEN encChunkStep(st) ELSE encReturnStep(st)
      [] fn = "decryptFileStream" ->
            IF st.offset < Len(st.blob) THEN decChunkStep(st) ELSE decReturnStep(st)

\* the local variables of a call that runs with nothing else until it has
\* resumed n times
RECURSIVE alone(_, _, _)
alone(fn, st, n) == IF n = 0 \/ settled(st) THEN st ELSE alone(fn, advance(fn, st), n - 1)

\* what a call that runs with nothing else settles to
RECURSIVE runAlone(_, _)
runAlone(fn, st) == IF settled(st) THEN st ELSE runAlone(fn, advance(fn, st))

\* the calls a caller can make on the key: fresh encryptions, and decryptions
\* of what an earlier encryption returned
Starts(fn, key) ==
    CASE fn = "encryptString" ->
            {encryptStringStart(t, key, iv) :
                t \in ConcurrentTexts, iv \in randomValues(IV_LENGTH)}
      [] fn = "decryptString" ->
            {LET e == encryptString(t, key, iv)
             IN  decryptStringStart(e.ciphertext, e.iv, key) :
                t \in ConcurrentTexts, iv \in randomValues(IV_LENGTH)}
      [] fn = "encryptFileStream" ->
            {encStart(f, key, iv) :
                f \in ConcurrentFiles, iv \in randomValues(IV_LENGTH)}
      [] fn = "decryptFileStream" ->
            {LET e == runAlone("encryptFileStream", encStart(f, key, iv))
             IN  decStart(e.blob, e.ivStr, key) :
                f \in ConcurrentFiles, iv \in randomValues(IV_LENGTH)}

callsInit == << >>

\* a caller invokes one of the four functions: the call runs up to its first
\* await
startCall ==
    /\ Len(calls) < MaxConcurrent
    /\ \E fn \in {"encryptString", "decryptString", "encryptFileStream", "decryptFileStream"} :
          \E start \in Starts(fn, roomKey) :
             calls' = Append(calls, [fn |-> fn, start |-> start, st |-> start, steps |-> 0])
    /\ UNCHANGED <<enc, dec, tamper, msg, rcv, sent, rooms, client, session, kdf, chat, exported, docs, view, rtc>>

\* variant: the chunk list is one array shared by the stream calls in flight
stepCallShared ==
    /\ \E i \in DOMAIN calls :
          /\ ~settled(calls[i].st)
          /\ LET next == advance(calls[i].fn, calls[i].st)
             IN  calls' = [j \in DOMAIN calls |->
                    IF j = i THEN [calls[i] EXCEPT !.st = next, !.steps = @ + 1]
                    ELSE IF /\ calls[j].fn = calls[i].fn
                            /\ calls[i].fn \in {"encryptFileStream", "decryptFileStream"}
                            /\ ~settled(calls[j].st)
                         THEN [calls[j] EXCEPT !.st.chunks = next.chunks]
                         ELSE calls[j]]
    /\ UNCHANGED <<enc, dec, tamper, msg, rcv, sent, rooms, client, session, kdf, chat, exported, docs, view, rtc>>

\* the event loop resumes one suspended call, which runs to its next await or
\* to its return
stepCall ==
    /\ \E i \in DOMAIN calls :
          /\ ~settled(calls[i].st)
          /\ calls' = [calls EXCEPT ![i].st = advance(calls[i].fn, calls[i].st),
                                    ![i].steps = @ + 1]
    /\ UNCHANGED <<enc, dec, tamper, msg, rcv, sent, rooms, client, session, kdf, chat, exported, docs, view, rtc>>


(***************************************************************************)
(* MessageList: viewing the media of the displayed messages                *)
(***************************************************************************)
MaxMedia == 2

\* the media files sent to the room: one and two bytes
ViewFiles == {fileOf(1, 0), fileOf(2, 0)}

\* Map.has, Map.get and Map.set on a map kept as a set of entries
mapHas(map, key) == \E e \in map : e.key = key

mapGet(map, key) == (CHOOSE e \in map : e.key = key).value

mapSet(map, key, value) == {e \in map : e.key # key} \cup {[key |-> key, value |-> value]}

\* uploadEncryptedFile: the blob is stored, its download URL is returned
uploadEncryptedFile(storage, encryptedBlob) ==
    [storage |-> Append(storage, encryptedBlob), url |-> Len(storage) + 1]

\* downloadEncryptedFile(storagePath): the blob stored there
downloadEncryptedFile(storage, storagePath) == storage[storagePath]

\* URL.createObjectURL of the decrypted blob; path and iv record the stored
\* blob and the nonce it was decrypted from
createObjectURL(decryptedBlob, path, iv) ==
    [blob |-> decryptedBlob, path |-> path, iv |-> iv]

\* storage holds the uploaded blobs (the download URL is the place in it),
\* viewing the handleViewMedia calls suspended at their awaits
viewInit == [storage |-> << >>, decryptingMedia |-> {}, mediaUrls |-> {}, viewing |-> {}]

\* a client of the room sends an image: handleSendFile with the room key
roomSendFile ==
    /\ Len(docs[chatRoomId]) < MaxMedia
    /\ \E file \in ViewFiles, iv \in randomValues(IV_LENGTH) :
          LET e == runAlone("encryptFileStream", encStart(file, roomKey, iv))
              up == uploadEncryptedFile(view.storage, e.blob)
              message == fileMessage("image", recordingName, octetStream, roomKey, <<iv, iv, iv>>)
          IN  /\ view' = [view EXCEPT !.storage = up.storage]
              /\ sendMessage(chatRoomId, [message EXCEPT !.storagePath = up.url])
    /\ UNCHANGED <<enc, dec, tamper, msg, rcv, sent, client, session, kdf, chat, exported, calls, rtc>>
\* a click on the view button of a displayed media message: handleViewMedia
\* up to its await.  The button is there while mediaUrls has no entry for the
\* message's id, and is disabled while decryptingMedia has the id.
handleViewMedia ==
    /\ \E i \in 1..Len(chat.messages) :
          LET message == chat.messages[i]
          IN  /\ message.contentType \in {"image", "audio", "video"}
              /\ ~mapHas(view.mediaUrls, message.id)
              /\ message.id \notin view.decryptingMedia
              /\ message.mediaUrl # 0
              /\ view' = [view EXCEPT !.decryptingMedia = @ \cup {message.id},
                                      !.viewing = @ \cup {message}]
    /\ UNCHANGED <<enc, dec, tamper, msg, rcv, sent, rooms, client, session, kdf, chat, exported, docs, calls, rtc>>
\* handleViewMedia from the download on: decrypt with the stored IV, keep the
\* object URL under the message's id; a failure is alerted
handleViewMediaResume ==
    /\ \E message \in view.viewing :
          LET encryptedBlob == downloadEncryptedFile(view.storage, message.mediaUrl)
              d == runAlone("decryptFileStream",
                            decStart(encryptedBlob, btoa(message.mediaIv), roomKey))
              url == createObjectURL(d.out, message.mediaUrl, message.mediaIv)
          IN  view' = [view EXCEPT
                 !.mediaUrls = IF d.pc = "done" THEN mapSet(@, message.id, url) ELSE @,
                 !.decryptingMedia = @ \ {message.id},
                 !.viewing = @ \ {message}]
    /\ UNCHANGED <<enc, dec, tamper, msg, rcv, sent, rooms, client, session, kdf, chat, exported, docs, calls, rtc>>

(***************************************************************************)
(* VideoCall: two peers of a room and the signaling collection             *)
(***************************************************************************)
MaxSignals == 4

Peers == {"A", "B"}

\* the tracks of the stream getUserMedia(true, true) returns
Tracks == <<"audio", "video">>

\* RTCPeerConnection.addTrack(track, stream): InvalidAccessError (ok = FALSE)
\* if the connection already has a sender for the track
addTrack(senders, track) ==
    IF track \in senders THEN [ok |-> FALSE, senders |-> senders]
    ELSE [ok |-> TRUE, senders |-> senders \cup {track}]

\* localStream.getTracks().forEach(track => addTrack(track, localStream)) on a
\* peer: the loop ends at the first call that throws; calls counts the
\* addTrack calls made for each track
RECURSIVE addTracks(_, _)
addTracks(pr, tracks) ==
    IF tracks = << >> THEN [ok |-> TRUE, peer |-> pr]
    ELSE LET added == addTrack(pr.senders, Head(tracks))
             next == [pr EXCEPT !.senders = added.senders,
                                !.calls[Head(tracks)] = @ + 1]
         IN  IF added.ok THEN addTracks(next, Tail(tracks))
             ELSE [ok |-> FALSE, peer |-> next]

\* setRemoteDescription(description) in a signaling state: an answer is applied
\* in have-local-offer only, an offer in stable or have-remote-offer, and in
\* have-local-offer after an implicit rollback; otherwise InvalidStateError
setRemoteDescription(signalingState, type) ==
    CASE type = "answer" /\ signalingState = "have-local-offer" ->
            [ok |-> TRUE, signalingState |-> "stable"]
      [] type = "offer" /\ signalingState \in {"stable", "have-remote-offer", "have-local-offer"} ->
            [ok |-> TRUE, signalingState |-> "have-remote-offer"]
      [] OTHER -> [ok |-> FALSE, signalingState |-> signalingState]

\* setLocalDescription(description)
setLocalDescription(signalingState, type) ==
    CASE type = "offer" /\ signalingState \in {"stable", "have-local-offer"} ->
            [ok |-> TRUE, signalingState |-> "have-local-offer"]
      [] type = "answer" /\ signalingState = "have-remote-offer" ->
            [ok |-> TRUE, signalingState |-> "stable"]
      [] OTHER -> [ok |-> FALSE, signalingState |-> signalingState]

\* a VideoCall that is not mounted; panel is the position of the component,
\* seen the signaling documents its listeners were given, answeredIn the
\* signaling states in which handleAnswer was called
peerInit ==
    [panel |-> "off", signalingState |-> "closed", senders |-> {},
     calls |-> [t \in {"audio", "video"} |-> 0], seen |-> {}, answeredIn |-> {}]

rtcInit == [peer |-> [p \in Peers |-> peerInit], signaling |-> << >>, sent |-> 0]

\* sendSignalingMessage(roomId, signalType, data, from): addDoc
sendSignalingMessage(signaling, signalType, from, id) ==
    Append(signaling, [id |-> id, type |-> signalType, from |-> from])

\* handleOffer(peer, roomId, offer, localStream): ok = FALSE is a rejection
handleOffer(pr) ==
    LET added == addTracks(pr, Tracks)
        remote == setRemoteDescription(added.peer.signalingState, "offer")
        local == setLocalDescription(remote.signalingState, "answer")
    IN  IF ~added.ok THEN [ok |-> FALSE, peer |-> added.peer]
        ELSE IF ~remote.ok \/ ~local.ok THEN [ok |-> FALSE, peer |-> added.peer]
        ELSE [ok |-> TRUE, peer |-> [added.peer EXCEPT !.signalingState = local.signalingState]]

\* handleAnswer(peer, answer): setRemoteDescription, whatever the state
handleAnswer(pr) ==
    LET remote == setRemoteDescription(pr.signalingState, "answer")
    IN  [pr EXCEPT !.signalingState = remote.signalingState,
                   !.answeredIn = @ \cup {pr.signalingState}]

\* "Start Call": the VideoCall mounts and initializeCall runs up to the first
\* await of initiateCall: a new connection, both listeners subscribed, the
\* local tracks added
initializeCall(p) ==
    /\ rtc.peer[p].panel = "off"
    /\ rtc.sent < MaxSignals
    /\ LET pr == [peerInit EXCEPT !.signalingState = "stable"]
           added == addTracks(pr, Tracks)
       IN  rtc' = [rtc EXCEPT !.peer[p] = [added.peer EXCEPT !.panel = "offering"]]
    /\ UNCHANGED <<enc, dec, tamper, msg, rcv, sent, rooms, client, session, kdf, chat, exported, docs, calls, view>>
\* initiateCall from createOffer on: setLocalDescription(offer), send the offer
initiateCall(p) ==
    /\ rtc.peer[p].panel = "offering"
    /\ LET local == setLocalDescription(rtc.peer[p].signalingState, "offer")
       IN  rtc' = [rtc EXCEPT
                     !.peer[p].signalingState = local.signalingState,
                     !.peer[p].panel = "on",
                     !.signaling = sendSignalingMessage(@, "offer", p, rtc.sent + 1),
                     !.sent = @ + 1]
    /\ UNCHANGED <<enc, dec, tamper, msg, rcv, sent, rooms, client, session, kdf, chat, exported, docs, calls, view>>
\* a signaling document of another peer is reported as added to the two
\* listeners of p: setupSignalingListener handles answer and hangup, the
\* listener of initializeCall handles offer.  On hangup the connection is
\* closed and the panel unmounted; the handleEndCall the listener was given is
\* the one of the first render, whose peer is still null, so no hangup is
\* sent back.  (ICE candidates do not touch what is modelled and are left out.)
onSignal(p) ==
    /\ rtc.peer[p].panel \in {"offering", "on"}
    /\ \E i \in 1..Len(rtc.signaling) :
          LET signal == rtc.signaling[i]
              pr == [rtc.peer[p] EXCEPT !.seen = @ \cup {signal.id}]
              offered == handleOffer(pr)
          IN  /\ signal.from # p
              /\ signal.id \notin rtc.peer[p].seen
              /\ rtc' =
                   CASE signal.type = "offer" /\ offered.ok /\ rtc.sent < MaxSignals ->
                           [rtc EXCEPT !.peer[p] = offered.peer,
                                       !.signaling = sendSignalingMessage(@, "answer", p, rtc.sent + 1),
                                       !.sent = @ + 1]
                     [] signal.type = "offer" /\ ~(offered.ok /\ rtc.sent < MaxSignals) ->
                           [rtc EXCEPT !.peer[p] = offered.peer]
                     [] signal.type = "answer" ->
                           [rtc EXCEPT !.peer[p] = handleAnswer(pr)]
                     [] OTHER ->
                           [rtc EXCEPT !.peer[p] = [peerInit EXCEPT !.calls = pr.calls,
                                                                    !.answeredIn = pr.answeredIn]]
    /\ UNCHANGED <<enc, dec, tamper, msg, rcv, sent, rooms, client, session, kdf, chat, exported, docs, calls, view>>
\* the "End Call" button: handleEndCall, cleanup, endCall up to the hangup
handleEndCall(p) ==
    /\ rtc.peer[p].panel = "on"
    /\ rtc' = [rtc EXCEPT !.peer[p].panel = "ending",
                          !.peer[p].signalingState = "closed"]
    /\ UNCHANGED <<enc, dec, tamper, msg, rcv, sent, rooms, client, session, kdf, chat, exported, docs, calls, view>>
\* endCall(peer, roomId) from the hangup on: the signal is sent, then
\* cleanupSignaling(roomId, 0) deletes every signaling document; the panel is
\* unmounted
endCall(p) ==
    /\ rtc.peer[p].panel = "ending"
    /\ rtc' = [rtc EXCEPT
                 !.peer[p] = [peerInit EXCEPT !.answeredIn = rtc.peer[p].answeredIn,
                                              !.calls = rtc.peer[p].calls],
                 !.signaling = IF rtc.sent < MaxSignals
                               THEN <<[id |-> rtc.sent + 1, type |-> "hangup", from |-> p]>>
                               ELSE << >>,
                 !.sent = IF rtc.sent < MaxSignals THEN @ + 1 ELSE @]
    /\ UNCHANGED <<enc, dec, tamper, msg, rcv, sent, rooms, client, session, kdf, chat, exported, docs, calls, view>>

(***************************************************************************)
(* Specifications                                                          *)
(***************************************************************************)
\* rooms the store may already hold when the session starts: none, or a room
\* for the code "a" stored without a verifier (verifierHash is optional in
\* RoomMetadata), or one stored with the verifier of its key
emptyStore == [r \in RoomIds |-> noRoom]

storedRooms ==
    LET id == generateRoomId(<<97>>)
        empty == emptyStore
    IN  { empty }
        \cup { [empty EXCEPT ![id] = [exists |-> TRUE, salt |-> s, hasVerifier |-> hv,
                                      verifierHash |->
                                          IF hv THEN sha256(deriveKey(<<97>>, s).key.material)
                                          ELSE noHash,
                                      lastActivity |-> 0]] :
                 s \in generateSalt, hv \in BOOLEAN }

Init ==
    /\ kdf = kdfInit
    /\ enc = encIdle
    /\ dec = decIdle
    /\ tamper = noTamper
    /\ msg = msgIdle
    /\ rcv = rcvIdle
    /\ sent = 0
    /\ rooms \in storedRooms
    /\ client = [c \in Clients |-> clientInit]
    /\ session = sessionInit
    /\ chat = chatInit
    /\ exported = {}
    /\ docs = [r \in RoomIds |-> << >>]
    /\ calls = callsInit
    /\ view = viewInit
    /\ rtc = rtcInit

\* the file and message specifications start from an empty room store
InitNoRooms == Init /\ rooms = emptyStore

\* file transfer: encryptFileStream, the transport, decryptFileStream
NextStream ==
    \/ encryptFileStreamBegin
    \/ encryptFileStreamChunk
    \/ encryptFileStreamReturn
    \/ decryptFileStreamBegin
    \/ decryptFileStreamChunk
    \/ decryptFileStreamReturn

SpecStream == InitNoRooms /\ [][NextStream]_vars

\* text messages: encryptString, the transport, decryptString
\* a call suspended at an await of the loop is resumed when the promise
\* resolves
SpecStreamFair ==
    /\ SpecStream
    /\ WF_vars(encryptFileStreamChunk)
    /\ WF_vars(encryptFileStreamReturn)

NextString ==
    \/ sendString
    \/ receiveString
    \/ nextMessage

SpecString == InitNoRooms /\ [][NextString]_vars

\* room creation and joining
NextRoom ==
    \E c \in Clients :
        \/ setRoomCode(c)
        \/ handleCreateRoom(c)
        \/ handleJoinRoom(c)
        \/ handleLeaveRoom(c)

SpecRoom == Init /\ [][NextRoom]_vars

\* the encryption calls of one ChatRoom session
NextSession ==
    \/ handleSendMessage
    \/ handleSendFile
    \/ onstop

SpecSession == InitNoRooms /\ [][NextSession]_vars

\* key derivation and verification called directly
NextKdf ==
    \/ callDeriveKey
    \/ callVerifyRoomCode

SpecKdf == InitNoRooms /\ [][NextKdf]_vars

\* the room store under direct calls
NextStore ==
    \/ callCreateRoom
    \/ callUpdateRoomActivity
    \/ callSendMessage

SpecStore == Init /\ [][NextStore]_vars

\* a ChatRoom loading the room's messages while clients send
NextChat ==
    \/ roomSendMessage
    \/ loadMessagesFetch \/ loadMessages
    \/ loadMoreMessagesFetch \/ loadMoreMessages
    \/ onSnapshot \/ subscriptionCallback

SpecChat == InitNoRooms /\ [][NextChat]_vars

\* a ChatRoom showing the media messages of the room in its MessageList
NextView ==
    \/ roomSendFile
    \/ loadMessagesFetch \/ loadMessages
    \/ onSnapshot \/ subscriptionCallback
    \/ handleViewMedia \/ handleViewMediaResume

SpecView == InitNoRooms /\ [][NextView]_vars

\* two peers of a room opening and closing the call panel
NextCall ==
    \E p \in Peers :
        \/ initializeCall(p)
        \/ initiateCall(p)
        \/ onSignal(p)
        \/ handleEndCall(p)
        \/ endCall(p)

SpecCall == InitNoRooms /\ [][NextCall]_vars

NextConcurrent == startCall \/ stepCall

SpecConcurrent == InitNoRooms /\ [][NextConcurrent]_vars

Next ==
    \/ NextStream \/ NextString \/ NextRoom \/ NextSession \/ NextKdf \/ NextStore
    \/ NextChat \/ NextConcurrent \/ NextView \/ NextCall

Spec == Init /\ [][Next]_vars

(***************************************************************************)
(* Claims                                                                  *)
(***************************************************************************)
sameKeyAndNonce == dec.key = enc.key /\ dec.ivStr = enc.ivStr

decFinished == dec.pc \in {"done", "rejected"}

\* C1: within one encryptFileStream call no two chunks are encrypted with the
\* same nonce: the nonces of chunks i # j differ.
C1_ChunkNoncesDistinct ==
    \A i \in DOMAIN enc.nonces : \A j \in DOMAIN enc.nonces :
        i # j => enc.nonces[i] # enc.nonces[j]

\* C2: a payload of more than one chunk, encrypted and then decrypted with the
\* same key and nonce, untouched by the transport, comes back byte for byte.
C2_LargePayloadFidelity ==
    (decFinished /\ tamper = noTamper /\ sameKeyAndNonce /\ Len(enc.file) > chunkSize)
        => (dec.pc = "done" /\ dec.out = enc.file)

\* C3: for the room code r and salt s of a room creation,
\* computeVerifierHash(deriveKey(r, s)) returns a hash h, verifyRoomCode(r, s, h)
\* is true and verifyRoomCode(wrongR, s, h) is false for every other room code.
C3_VerifierCorrect ==
    \A c \in Clients :
        client[c].last = "create" =>
            LET r == client[c].ranCode
                s == client[c].ranSalt
                h == computeVerifierHash(deriveKey(r, s).key)
            IN  /\ h.ok
                /\ verifyRoomCode(r, s, h.hash)
                /\ \A wrongR \in RoomCodes \ {r} : ~verifyRoomCode(wrongR, s, h.hash)

\* C4: a client that ran handleCreateRoom with a non-empty room code has
\* entered the room and the room's salt and verifier are stored; a client that
\* then ran handleJoinRoom with the same code has entered too, with the same key.
C4_CreateThenJoinMeet ==
    \A a \in Clients :
        client[a].last = "create" =>
            /\ client[a].joined
            /\ LET room == rooms[generateRoomId(client[a].ranCode)]
               IN  room.exists /\ room.hasVerifier
            /\ \A b \in Clients :
                  (client[b].last = "join" /\ a \in client[b].creators
                   /\ client[b].ranCode = client[a].ranCode)
                      => (client[b].joined
                          /\ client[b].roomState.key.material
                               = client[a].roomState.key.material)

\* C5: after two chunk ciphertexts of a blob are exchanged, decryptFileStream
\* never completes: it returns no blob.
C5_SwapRejected ==
    tamper.kind = "swap" =>
        /\ dec.pc # "done"
        /\ ~(dec.pc = "loop" /\ dec.offset >= Len(dec.blob))

\* witness of C5: two different chunk ciphertexts exchanged, right key and
\* nonce, the call rejected
C5_Witness ==
    /\ tamper.kind = "swap"
    /\ enc.chunks[tamper.i] # enc.chunks[tamper.j]
    /\ sameKeyAndNonce
    /\ dec.pc = "rejected"

\* C6: after the chunk list of a blob of two or more chunks is truncated to a
\* shorter prefix of whole chunk ciphertexts, decryptFileStream never returns.
C6_TruncationRejected ==
    tamper.kind = "truncate" => dec.pc # "done"

\* C7: a chunk ciphertext produced at index i > 0 of a stream, read alone at
\* index 0 with the same key and base nonce, does not authenticate.
C7_PositionBound ==
    (tamper.kind = "only" /\ tamper.i > 1 /\ sameKeyAndNonce) => Len(dec.chunks) = 0

\* C8: a payload of at most one chunk (0 < size <= chunk size), encrypted and
\* then decrypted with the same key and nonce, comes back byte for byte.
C8_SingleChunkRoundTrip ==
    (decFinished /\ tamper = noTamper /\ sameKeyAndNonce
     /\ Len(enc.file) > 0 /\ Len(enc.file) <= chunkSize)
        => (dec.pc = "done" /\ dec.out = enc.file)

received == rcv.pc # "idle"

\* C9: decryptString of the envelope encryptString produced, with the same
\* key, returns the plaintext, for every message of the session.
C9_MessageRoundTrip ==
    (received /\ rcv.ciphertext = msg.ciphertext /\ rcv.iv = msg.iv /\ rcv.key = msg.key)
        => (rcv.pc = "done" /\ rcv.text = msg.plaintext)

\* C10 as stated: decryptString rejects whenever the key, the nonce text or
\* the ciphertext text differs from the ones of the envelope.
C10_RejectsAnyDifference ==
    (received /\ (rcv.key # msg.key \/ rcv.iv # msg.iv \/ rcv.ciphertext # msg.ciphertext))
        => rcv.pc = "rejected"

decodesAlike(str1, str2, bad) ==
    atob(str1, bad).ok /\ atob(str2, bad).ok /\ atob(str1, bad).bytes = atob(str2, bad).bytes

\* C10 amended: decryptString rejects whenever the key differs, or the nonce
\* text or the ciphertext text does not decode to the bytes of the envelope's.
C10_RejectsDifferentBytes ==
    (received /\ (\/ rcv.key # msg.key
                  \/ ~decodesAlike(rcv.iv, msg.iv, 0)
                  \/ ~decodesAlike(rcv.ciphertext, msg.ciphertext, junkByte)))
        => (rcv.pc = "rejected" /\ rcv.text = << >>)

\* witness of C10: a ciphertext of other bytes, the right key and nonce, rejected
C10_Witness ==
    /\ rcv.pc = "rejected"
    /\ rcv.key = msg.key
    /\ rcv.iv = msg.iv
    /\ atob(rcv.ciphertext, junkByte).ok
    /\ ~decodesAlike(rcv.ciphertext, msg.ciphertext, junkByte)

\* C11: decryptFileStream of an untouched encrypted blob with a key other than
\* the one it was encrypted with never returns a blob, whatever the payload
\* size, the empty payload included.
C11_WrongKeyStreamRejected ==
    (tamper = noTamper /\ dec.key # enc.key) => dec.pc # "done"

\* the encryptString calls among the session's encryption calls
stringOps == {i \in 1..Len(session.ops) : session.ops[i].op = "encryptString"}

\* what the encryptString call recorded as o returned
returned(o) == encryptString(o.plaintext, roomKey, o.nonces[1])

decryptsBack(o) ==
    LET r == decryptString(returned(o).ciphertext, returned(o).iv, roomKey)
    IN  r.ok /\ r.text = o.plaintext

\* C12: any two encryptString calls with the same plaintext under the same key
\* return different nonces and different ciphertexts, and each envelope
\* decrypts back to the plaintext (the random source never repeating a draw).
C12_SamePlaintextTwice ==
    \A i, j \in stringOps :
        (i # j /\ session.ops[i].plaintext = session.ops[j].plaintext) =>
            /\ returned(session.ops[i]).iv # returned(session.ops[j]).iv
            /\ returned(session.ops[i]).ciphertext # returned(session.ops[j]).ciphertext
            /\ decryptsBack(session.ops[i])
            /\ decryptsBack(session.ops[j])

\* every nonce an encryption call of the session has used, with the call
usedNonces ==
    UNION { {<<i, n>> : n \in 1..Len(session.ops[i].nonces)} : i \in 1..Len(session.ops) }

\* C13: under the room key no nonce is shared by two encryption calls of a
\* session: the nonces of the encryptString calls and the chunk nonces of the
\* encryptFileStream calls of different calls are pairwise different, the
\* three calls of one send-file action included.
C13_NoNonceShared ==
    \A a, b \in usedNonces :
        a[1] # b[1] => session.ops[a[1]].nonces[a[2]] # session.ops[b[1]].nonces[b[2]]

\* two send-file actions, each with a stream of more than one chunk
C13_Witness ==
    \E i, j \in 1..Len(session.ops) :
        /\ session.ops[i].call # session.ops[j].call
        /\ session.ops[i].op = "encryptFileStream" /\ Len(session.ops[i].nonces) > 1
        /\ session.ops[j].op = "encryptFileStream" /\ Len(session.ops[j].nonces) > 1
        /\ \E k \in 1..Len(session.ops) :
              session.ops[k].call = session.ops[i].call /\ session.ops[k].field = "mimeType"

\* the calls of fn made so far
callsOf(fn) == {call \in kdf.calls : call.fn = fn}

\* C14: deriveKey fails, returning no key, whenever the room code is empty or
\* the decoded salt is not exactly SALT_LENGTH bytes long.
C14_DeriveKeyValidates ==
    \A call \in callsOf("deriveKey") :
        LET saltArray == atob(call.salt, 0)
        IN  (call.roomCode = << >> \/ ~saltArray.ok \/ Len(saltArray.bytes) # SALT_LENGTH)
                => (~call.ok /\ call.key = noKey)

\* a step of verifyRoomCode(roomCode, salt, ...) raises: atob, deriveKey, or
\* exportKey inside computeVerifierHash
stepRaised(roomCode, salt) ==
    \/ ~deriveKey(roomCode, salt).ok
    \/ ~computeVerifierHash(deriveKey(roomCode, salt).key).ok

\* C15: verifyRoomCode never lets an error reach its caller: every call
\* completes with a boolean, and with false whenever one of its steps raised.
C15_VerifyNeverThrows ==
    \A call \in callsOf("verifyRoomCode") :
        /\ call.ok
        /\ call.value \in BOOLEAN
        /\ stepRaised(call.roomCode, call.salt) => call.value = FALSE

\* calls made on a salt atob rejects, on an empty room code, and on a valid
\* salt whose key cannot be exported
C15_Witness ==
    /\ \E call \in callsOf("verifyRoomCode") : ~atob(call.salt, 0).ok
    /\ \E call \in callsOf("verifyRoomCode") :
          call.roomCode = << >> /\ atob(call.salt, 0).ok
    /\ \E call \in callsOf("verifyRoomCode") :
          /\ deriveKey(call.roomCode, call.salt).ok
          /\ call.roomCode # << >>
          /\ stepRaised(call.roomCode, call.salt)

C17_StopsAtFirstFailure ==
    dec.tried > Len(dec.chunks) =>
        /\ dec.pc = "rejected"
        /\ dec.tried = Len(dec.chunks) + 1
        /\ dec.out = << >>

\* a rejection after a chunk was decrypted, with encrypted bytes left over
C17_Witness ==
    /\ dec.pc = "rejected"
    /\ Len(dec.chunks) >= 1
    /\ dec.chunks[1] # << >>
    /\ dec.offset + decChunkSize < Len(dec.blob)

\* the keys deriveKey has returned to the clients' handlers
derivedKeys ==
    {client[c].roomState.key : c \in {a \in Clients : client[a].joined}}
    \cup {deriveKey(client[c].ranCode, client[c].ranSalt).key :
            c \in {a \in Clients : client[a].last = "create"}}

C19_MetadataImmutable ==
    [][\A id \in RoomIds :
          rooms[id].hasVerifier =>
              /\ rooms'[id].exists /\ rooms'[id].hasVerifier
              /\ rooms'[id].salt = rooms[id].salt
              /\ rooms'[id].verifierHash = rooms[id].verifierHash]_vars

\* the stored documents whose message is on screen
displayed == {chat.messages[i].doc : i \in 1..Len(chat.messages)}

\* C20: after the initial load or a load of older messages, every message of
\* the fetched page that decrypts is on screen, whether or not another
\* message of the page failed to decrypt.
C20_FailureConfined ==
    chat.last # "none" =>
        \A i \in 1..Len(chat.page) :
            decryptMessage(chat.page[i]).ok => chat.page[i].id \in displayed


C22_PagesDisjoint ==
    (chat.last = "loadMoreMessages" /\ chat.query = noQuery) =>
        \A i \in 1..Len(chat.page), j \in 1..Len(chat.prev) :
            chat.page[i].id < chat.prev[j].id


\* C23: after any interleaving of the initial load, loads of older messages
\* and subscription deliveries, no stored message is displayed twice.
C23_NoDuplicates ==
    \A i, j \in 1..Len(chat.messages) :
        chat.messages[i].doc = chat.messages[j].doc => i = j

\* C24: after any sequence of the initial load, loads of older messages and
\* subscription deliveries, the displayed list is in ascending order of
\* timestamp (a message never stands before an older one).
C24_SortedByTimestamp ==
    \A i, j \in 1..Len(chat.messages) :
        i < j => chat.messages[i].doc <= chat.messages[j].doc

\* C25: once loadMessages has completed, every message the subscription
\* callback appended while it was in flight is still displayed.
C25_EarlyDeliveriesKept ==
    chat.last # "none" => chat.early \subseteq displayed


\* the media messages on screen that show an object URL
showing == {i \in 1..Len(chat.messages) :
               /\ chat.messages[i].contentType \in {"image", "audio", "video"}
               /\ mapHas(view.mediaUrls, chat.messages[i].id)}

\* C26: the object URL displayed for a media message was produced by
\* decrypting that message's own stored blob with that message's own nonce.
C26_OwnMediaDisplayed ==
    \A i \in showing :
        LET message == chat.messages[i]
            url == mapGet(view.mediaUrls, message.id)
        IN  url.path = message.mediaUrl /\ url.iv = message.mediaIv


\* C27: on a blob the transport left untouched, the k-th byte range
\* decryptFileStream slices is exactly the k-th chunk ciphertext (plaintext
\* chunk and tag) that encryptFileStream concatenated, and a call that returns
\* has processed as many chunks as were written.
C27_FramingAgrees ==
    (dec.pc # "idle" /\ tamper = noTamper) =>
        /\ \A k \in 1..dec.tried :
              /\ k <= Len(enc.chunks)
              /\ slice(dec.blob, (k - 1) * decChunkSize, k * decChunkSize) = enc.chunks[k]
        /\ dec.pc = "done" => dec.tried = Len(enc.chunks)


\* the room of the code the client ran handleJoinRoom with exists and, if it
\* carries a verifier hash, verifyRoomCode returned true for the code
admitted(c) ==
    LET room == rooms[generateRoomId(client[c].ranCode)]
    IN  /\ room.exists
        /\ room.hasVerifier =>
              verifyRoomCode(client[c].ranCode, room.salt, room.verifierHash).value

\* C28: handleJoinRoom calls onJoin only if the room's metadata exists and,
\* when it carries a verifier hash, verifyRoomCode returned true; otherwise it
\* sets an error and does not call onJoin.
C28_JoinAdmission ==
    \A c \in Clients :
        client[c].last = "join" =>
            /\ client[c].joined => admitted(c)
            /\ ~admitted(c) => (~client[c].joined /\ client[c].error # "")

\* one client was let into a stored room without verifier hash, the other was
\* refused the room of a code nobody created
C28_Witness ==
    /\ client["A"].last = "join" /\ client["A"].joined /\ admitted("A")
    /\ ~rooms[generateRoomId(client["A"].ranCode)].hasVerifier
    /\ client["B"].last = "join" /\ ~client["B"].joined /\ ~admitted("B")
    /\ client["B"].error = "Room not found. Please check your room code."


\* C29: a peer calls handleAnswer only while its connection is in
\* have-local-offer (never in stable or have-remote-offer), and no peer calls
\* addTrack twice for the same local track of a connection, also when both
\* peers open the call panel and each sends an offer.
C29_GlareSafe ==
    \A p \in Peers :
        /\ rtc.peer[p].answeredIn \subseteq {"have-local-offer"}
        /\ \A t \in DOMAIN rtc.peer[p].calls : rtc.peer[p].calls[t] <= 1


\* the number of chunks of a file of n bytes: ceil(n / chunkSize)
chunksOf(n) == (n + chunkSize - 1) \div chunkSize

\* the plaintext that the k-th chunk encryption of the call was given
plaintextChunk(k) == aesGcmDecrypt(enc.key, enc.nonces[k], enc.chunks[k]).bytes

\* the chunks read so far are consecutive, of exactly chunkSize bytes but for
\* a shorter last one, no more than ceil(size / chunkSize), and put end to end
\* they are the source up to the offset
chunkingExact ==
    enc.pc # "idle" =>
        LET n == Len(enc.chunks)
            size == Len(enc.file)
        IN  /\ n <= chunksOf(size)
            /\ enc.offset = n * chunkSize
            /\ \A k \in 1..n :
                  Len(plaintextChunk(k))
                      = IF k < chunksOf(size) THEN chunkSize ELSE size - (k - 1) * chunkSize
            /\ combine([k \in 1..n |-> plaintextChunk(k)]) = slice(enc.file, 0, enc.offset)
            /\ (n = chunksOf(size)) <=> (enc.offset >= size)
            /\ enc.pc = "done" => n = chunksOf(size)

\* C30: encryptFileStream reads consecutive chunks of exactly chunkSize bytes,
\* the last one possibly shorter, performs exactly ceil(size / chunkSize) chunk
\* encryptions (none for an empty file) and then returns; the plaintext chunks
\* it encrypted, put end to end, are the source.
C30_ChunkingTerminates ==
    /\ []chunkingExact
    /\ (enc.pc = "loop") ~> (enc.pc = "done")

\* a file of more than two chunks with a shorter final chunk was encrypted
C30_Witness ==
    /\ enc.pc = "done"
    /\ Len(enc.file) > 2 * chunkSize
    /\ Len(enc.file) % chunkSize # 0
    /\ Len(enc.chunks) = 3

====
